---- MODULE Spec2Model ----
(***************************************************************************)
(* A model of pdffit2/PdfFit.py: the PdfFit session object, its refinement *)
(* controller (refine, refine_step), the constraint binder (constrain,     *)
(* setpar, setvar, getvar), the textual variable addresses (__getRef and   *)
(* the formatters lat, x, ..., rcut) and the calls they make on the        *)
(* pdffit2 engine.                                                         *)
(*                                                                         *)
(* A Python str is a sequence of one-character strings.  A Python value is *)
(* a record [t, n, s]: t its type, n its number, s its text.               *)
(***************************************************************************)
EXTENDS Integers, Sequences, FiniteSets, TLC

(***************************************************************************)
(* Bounds of the model.                                                    *)
(***************************************************************************)
\* engine iterations one refine call may make in the model
MaxSteps == 3
\* atoms in the structure the engine holds
NumAtoms == 2
\* parameter slots the callers use
MaxPar == 1
\* the largest index the formatters are given
MaxIndex == 11
\* the refinement parameters the engine holds: slots 1..NumPars
NumPars == 2
\* the most entries a name list is let grow to
MaxFiles == 2

(***************************************************************************)
(* Python values                                                           *)
(***************************************************************************)
Val(t, n, s) == [t |-> t, n |-> n, s |-> s]
PyNone == Val("none", 0, <<>>)
PyInt(n) == Val("int", n, <<>>)
PyFloat(n) == Val("float", n, <<>>)
PyStr(s) == Val("str", 0, s)
PyBool(b) == Val("bool", IF b THEN 1 ELSE 0, <<>>)
\* a bound method of the session, self.<name>, passed without parentheses
PyMethod(name) == Val("method", 0, name)
\* what the engine hands back for a variable: an opaque reference
PyRef(kind, i) == Val("ref", i, kind)
\* a list of n numbers
PyList(n) == Val("list", n, <<>>)

\* Python truth value of a value (if x:, while not x:)
Truthy(v) ==
    CASE v.t = "none" -> FALSE
      [] v.t \in {"int", "float", "bool"} -> v.n # 0
      [] v.t = "str" -> v.s # <<>>
      [] OTHER -> TRUE

(***************************************************************************)
(* str methods and int(), as __getRef uses them                            *)
(***************************************************************************)
Digit == {"0", "1", "2", "3", "4", "5", "6", "7", "8", "9"}
Space == {" "}

DigitVal(c) ==
    CASE c = "0" -> 0 [] c = "1" -> 1 [] c = "2" -> 2 [] c = "3" -> 3
      [] c = "4" -> 4 [] c = "5" -> 5 [] c = "6" -> 6 [] c = "7" -> 7
      [] c = "8" -> 8 [] c = "9" -> 9

DigitChr(d) ==
    CASE d = 0 -> "0" [] d = 1 -> "1" [] d = 2 -> "2" [] d = 3 -> "3"
      [] d = 4 -> "4" [] d = 5 -> "5" [] d = 6 -> "6" [] d = 7 -> "7"
      [] d = 8 -> "8" [] d = 9 -> "9"

\* s.lstrip(chars), s.rstrip(chars), s.strip(chars)
RECURSIVE LStrip(_, _)
LStrip(s, cs) ==
    IF s # <<>> /\ Head(s) \in cs THEN LStrip(Tail(s), cs) ELSE s

RECURSIVE RStrip(_, _)
RStrip(s, cs) ==
    IF s # <<>> /\ s[Len(s)] \in cs
    THEN RStrip(SubSeq(s, 1, Len(s) - 1), cs)
    ELSE s

StripChars(s, cs) == RStrip(LStrip(s, cs), cs)

\* s.strip()
Strip(s) == StripChars(s, Space)

\* s.split(c): the pieces of s between the occurrences of c
RECURSIVE Split(_, _)
Split(s, c) ==
    IF \E i \in 1..Len(s) : s[i] = c
    THEN LET i == CHOOSE j \in 1..Len(s) :
                     s[j] = c /\ \A k \in 1..(j - 1) : s[k] # c
         IN  <<SubSeq(s, 1, i - 1)>> \o Split(SubSeq(s, i + 1, Len(s)), c)
    ELSE <<s>>

\* the value of a run of decimal digits
RECURSIVE DigitsVal(_)
DigitsVal(s) ==
    IF s = <<>> THEN 0
    ELSE 10 * DigitsVal(SubSeq(s, 1, Len(s) - 1)) + DigitVal(s[Len(s)])

AllDigits(s) == s # <<>> /\ \A i \in 1..Len(s) : s[i] \in Digit

\* int(s) succeeds: optional blanks, an optional sign, decimal digits
IsIntLit(s) ==
    LET b == Strip(s)
    IN  /\ b # <<>>
        /\ IF Head(b) \in {"+", "-"} THEN AllDigits(Tail(b)) ELSE AllDigits(b)

\* int(s), where it succeeds
IntVal(s) ==
    LET b == Strip(s)
    IN  IF Head(b) = "-" THEN 0 - DigitsVal(Tail(b))
        ELSE IF Head(b) = "+" THEN DigitsVal(Tail(b))
        ELSE DigitsVal(b)

\* a variant: only the last digit is written
NatStr_LastDigit(n) == <<DigitChr(n % 10)>>

\* "%i" % n
RECURSIVE NatStr(_)
NatStr(n) ==
    IF n < 10 THEN <<DigitChr(n)>>
    ELSE NatStr(n \div 10) \o <<DigitChr(n % 10)>>

IntStr(n) == IF n < 0 THEN <<"-">> \o NatStr(0 - n) ELSE NatStr(n)

\* s.upper()
LowerCase ==
    << "a","b","c","d","e","f","g","h","i","j","k","l","m",
       "n","o","p","q","r","s","t","u","v","w","x","y","z" >>
UpperCase ==
    << "A","B","C","D","E","F","G","H","I","J","K","L","M",
       "N","O","P","Q","R","S","T","U","V","W","X","Y","Z" >>
UpperChr(c) ==
    IF \E k \in 1..Len(LowerCase) : LowerCase[k] = c
    THEN UpperCase[CHOOSE k \in 1..Len(LowerCase) : LowerCase[k] = c]
    ELSE c
Upper(s) == [k \in 1..Len(s) |-> UpperChr(s[k])]

(***************************************************************************)
(* The names of the engine module pdffit2 that this file reads: the        *)
(* variables the formatters name (lat ... rcut) and functions PdfFit calls *)
(* with the handle alone (reset, calc, getrw) or with the handle and an    *)
(* integer (fixpar, freepar).  Each name with its characters.              *)
(***************************************************************************)
Chars ==
    [ lat |-> <<"l","a","t">>,
      x |-> <<"x">>,
      y |-> <<"y">>,
      z |-> <<"z">>,
      u11 |-> <<"u","1","1">>,
      u22 |-> <<"u","2","2">>,
      u33 |-> <<"u","3","3">>,
      u12 |-> <<"u","1","2">>,
      u13 |-> <<"u","1","3">>,
      u23 |-> <<"u","2","3">>,
      occ |-> <<"o","c","c">>,
      pscale |-> <<"p","s","c","a","l","e">>,
      srat |-> <<"s","r","a","t">>,
      delta |-> <<"d","e","l","t","a">>,
      gamma |-> <<"g","a","m","m","a">>,
      dscale |-> <<"d","s","c","a","l","e">>,
      qsig |-> <<"q","s","i","g">>,
      qalp |-> <<"q","a","l","p">>,
      rcut |-> <<"r","c","u","t">>,
      reset |-> <<"r","e","s","e","t">>,
      calc |-> <<"c","a","l","c">>,
      getrw |-> <<"g","e","t","r","w">>,
      fixpar |-> <<"f","i","x","p","a","r">>,
      freepar |-> <<"f","r","e","e","p","a","r">> ]

IndexedKinds ==
    {"lat", "x", "y", "z", "u11", "u22", "u33", "u12", "u13", "u23", "occ"}
ScalarKinds ==
    {"pscale", "srat", "delta", "gamma", "dscale", "qsig", "qalp", "rcut"}
Kinds == IndexedKinds \cup ScalarKinds
HandleOnlyFns == {"reset", "calc", "getrw"}
HandleIntFns == {"fixpar", "freepar"}
\* the selection functions: of a phase, and of atoms i or j of a dataset
PhaseSelFns == {"psel", "pdesel"}
AtomSelFns == {"isel", "idesel", "jsel", "jdesel"}

\* hasattr(pdffit2, name) and the attribute it names
HasAttr(name) == \E a \in DOMAIN Chars : Chars[a] = name
AttrOf(name) == CHOOSE a \in DOMAIN Chars : Chars[a] = name

\* LatParams of lat(): 'a':1, 'b':2, 'c':3, 'alpha':4, 'beta':5, 'gamma':6
LatParams ==
    << <<"a">>, <<"b">>, <<"c">>,
       <<"a","l","p","h","a">>, <<"b","e","t","a">>, <<"g","a","m","m","a">> >>

\* the lattice variables the engine holds
LatCount == 6

\* FCON = { 'USER' : 0, 'IDENT' : 1, 'FCOMP' : 2, 'FSQR' : 3 }: the keys, the
\* code of a key being its place less one
FCON ==
    << <<"U","S","E","R">>, <<"I","D","E","N","T">>,
       <<"F","C","O","M","P">>, <<"F","S","Q","R">> >>
\* Sctp = { 'X' : 0, 'N' : 1 }: the keys, the code of a key being its place
\* less one
Sctp == << <<"X">>, <<"N">> >>
HasSctp(key) == \E k \in 1..Len(Sctp) : Sctp[k] = key
SctpCode(key) == (CHOOSE k \in 1..Len(Sctp) : Sctp[k] = key) - 1

\* selalias = { 'ALL' : -1 }: its key, and the value of the key
AllKey == <<"A","L","L">>
ALL == -1

HasFCON(key) == \E k \in 1..Len(FCON) : FCON[k] = key
FCONCode(key) == (CHOOSE k \in 1..Len(FCON) : FCON[k] = key) - 1

(***************************************************************************)
(* Results: a Python call returns a value or raises.  err = "" is a return.*)
(***************************************************************************)
Ok(v) == [err |-> "", val |-> v]
Raise(e) == [err |-> e, val |-> PyNone]

(***************************************************************************)
(* The formatters, PdfFit.lat ... PdfFit.rcut                              *)
(***************************************************************************)
\* "name(%i)" % i
FormatIndexed(name, i) ==
    IF i.t \in {"int", "float"}
    THEN Ok(PyStr(name \o <<"(">> \o IntStr(i.n) \o <<")">>))
    ELSE Raise("TypeError")

\* a variant: the names numbered from 0
lat_FromZero(n) ==
    IF n.t = "str"
    THEN IF \E k \in 1..Len(LatParams) : LatParams[k] = n.s
         THEN FormatIndexed(Chars.lat,
                  PyInt((CHOOSE k \in 1..Len(LatParams) : LatParams[k] = n.s) - 1))
         ELSE Raise("KeyError")
    ELSE FormatIndexed(Chars.lat, n)

\* PdfFit.lat(n)
lat(n) ==
    IF n.t = "str"
    THEN IF \E k \in 1..Len(LatParams) : LatParams[k] = n.s
         THEN FormatIndexed(Chars.lat,
                  PyInt(CHOOSE k \in 1..Len(LatParams) : LatParams[k] = n.s))
         ELSE Raise("KeyError")
    ELSE FormatIndexed(Chars.lat, n)

\* PdfFit.x(i), y(i), z(i), u11(i) ... occ(i)
FormatAtom(kind, i) == FormatIndexed(Chars[kind], i)

\* PdfFit.pscale() ... PdfFit.rcut()
FormatScalar(kind) == Ok(PyStr(Chars[kind]))

\* PdfFit.pfrac(): same as pscale
pfrac == FormatScalar("pscale")

PfracName == <<"p","f","r","a","c">>

\* val(): a bound method called with no argument
CallMethod(m) ==
    IF m.s = PfracName THEN pfrac
    ELSE IF HasAttr(m.s) /\ AttrOf(m.s) \in ScalarKinds
    THEN FormatScalar(AttrOf(m.s))
    ELSE Raise("TypeError")

(***************************************************************************)
(* PdfFit.__getRef: the text of an address is split into the name of an    *)
(* engine function and an optional integer argument.                       *)
(***************************************************************************)
\* the try block of __getRef and its except ValueError branch
ParseRef(var_string) ==
    LET parts == Split(var_string, "(")
    IN  IF Len(parts) = 2 /\ IsIntLit(StripChars(parts[2], {")"}))
        THEN [method_string |-> Strip(parts[1]),
              has_arg |-> TRUE,
              arg_int |-> IntVal(StripChars(parts[2], {")"}))]
        ELSE [method_string |-> Strip(var_string),
              has_arg |-> FALSE,
              arg_int |-> 0]

(***************************************************************************)
(* The engine, pdffit2.  A call is recorded with its function, its         *)
(* arguments after the handle, who made it ("getRef" or the method itself) *)
(* and what the engine answered.  The engine's answers are its interface:  *)
(* for each call, the set of results it may give.                          *)
(***************************************************************************)
Call(fn, args, by, out) == [fn |-> fn, args |-> args, by |-> by, out |-> out]

IsRef(v) == v.t = "ref"

\* the indices the engine holds for an indexed variable
ValidIndex(kind, i) ==
    IF kind = "lat" THEN i \in 1..LatCount ELSE i \in 1..NumAtoms

\* the slots fixpar and freepar accept: a parameter, or all of them
Pars == 1..NumPars
HoldsPar(n) == n = ALL \/ n \in Pars

EngineOutcomes(fn, args) ==
    CASE fn \in IndexedKinds ->
           IF Len(args) # 1 THEN {Raise("TypeError")}
           ELSE IF ValidIndex(fn, args[1].n)
           THEN {Ok(PyRef(Chars[fn], args[1].n)), Raise("unassignedError")}
           ELSE {Raise("ValueError")}
      [] fn \in ScalarKinds ->
           IF Len(args) # 0 THEN {Raise("TypeError")}
           ELSE {Ok(PyRef(Chars[fn], 0)), Raise("unassignedError")}
      [] fn \in HandleOnlyFns ->
           IF Len(args) # 0 THEN {Raise("TypeError")} ELSE {Ok(PyNone)}
      [] fn \in HandleIntFns ->
           IF Len(args) # 1 \/ args[1].t # "int" THEN {Raise("TypeError")}
           ELSE IF HoldsPar(args[1].n)
           THEN {Ok(PyNone), Raise("unassignedError")}
           ELSE {Raise("unassignedError")}
      [] fn \in PhaseSelFns ->
           IF Len(args) # 1 \/ args[1].t # "int" THEN {Raise("TypeError")}
           ELSE {Ok(PyNone), Raise("unassignedError")}
      [] fn \in AtomSelFns ->
           IF Len(args) # 2 \/ args[1].t # "int" \/ args[2].t # "int"
           THEN {Raise("TypeError")}
           ELSE {Ok(PyNone), Raise("unassignedError")}
      [] fn = "refine_step" ->
           {Ok(PyBool(TRUE)), Ok(PyBool(FALSE)), Raise("calculationError"),
            Raise("constraintError"), Raise("unassignedError")}
      [] fn = "constrain_int" ->
           IF IsRef(args[1]) /\ args[2].t = "int"
           THEN {Ok(PyNone), Raise("constraintError"), Raise("unassignedError")}
           ELSE {Raise("TypeError")}
      [] fn = "constrain_str" ->
           IF IsRef(args[1]) /\ args[2].t = "str"
           THEN {Ok(PyNone), Raise("constraintError"), Raise("unassignedError")}
           ELSE {Raise("TypeError")}
      [] fn = "setpar_dbl" ->
           IF args[1].t = "int"
           THEN {Ok(PyNone), Raise("ValueError"), Raise("unassignedError")}
           ELSE {Raise("TypeError")}
      [] fn = "setpar_RV" ->
           IF args[1].t = "int" /\ IsRef(args[2])
           THEN {Ok(PyNone), Raise("unassignedError")}
           ELSE {Raise("TypeError")}
      [] fn = "setvar" ->
           IF IsRef(args[1]) /\ args[2].t \in {"int", "float"}
           THEN {Ok(PyNone), Raise("unassignedError")}
           ELSE {Raise("TypeError")}
      [] fn = "getvar" ->
           IF IsRef(args[1])
           THEN {Ok(PyFloat(v)) : v \in 0..1} \cup {Raise("unassignedError")}
           ELSE {Raise("TypeError")}
      [] fn \in {"read_struct", "read_data"} ->
           {Ok(PyNone), Raise("IOError")}
      [] fn = "read_struct_string" ->
           {Ok(PyNone), Raise("structureError")}
      [] fn = "read_data_string" ->
           {Ok(PyNone), Raise("dataError")}
      [] fn = "read_data_arrays" ->
           IF args[4].n # args[5].n THEN {Raise("ValueError")}
           ELSE {Ok(PyNone)}
      [] OTHER -> {Ok(PyNone)}

\* the free parameters after the engine has answered call c: fixpar and
\* freepar change the status of the slot(s) named, reset starts afresh with
\* every parameter free, a call that raises changes nothing
ParStep(free, c) ==
    IF c.out.err # "" THEN free
    ELSE CASE c.fn = "fixpar" ->
                IF c.args[1].n = ALL THEN {} ELSE free \ {c.args[1].n}
           [] c.fn = "freepar" ->
                IF c.args[1].n = ALL THEN Pars ELSE free \cup {c.args[1].n}
           [] c.fn = "reset" -> Pars
           [] OTHER -> free

RECURSIVE ParAfter(_, _)
ParAfter(free, cs) ==
    IF cs = <<>> THEN free ELSE ParAfter(ParStep(free, Head(cs)), Tail(cs))

(***************************************************************************)
(* A run of a method: the engine calls it made, in order, and its result.  *)
(***************************************************************************)
Run(calls, res) == [calls |-> calls, err |-> res.err, val |-> res.val]

\* the runs that make one engine call and end with what it answers
CallRuns(before, fn, args, by) ==
    { Run(Append(before, Call(fn, args, by, o)), o) :
        o \in EngineOutcomes(fn, args) }

\* a variant: "if not arg_int" in place of "if arg_int is None"
GetRef_ZeroIsNone(var_string) ==
    LET called == IF var_string.t = "method"
                  THEN CallMethod(var_string) ELSE Ok(var_string)
    IN  IF called.err # "" THEN {Run(<<>>, called)}
        ELSE IF called.val.t # "str" THEN {Run(<<>>, Raise("AttributeError"))}
        ELSE LET p == ParseRef(called.val.s)
             IN  IF ~HasAttr(p.method_string)
                 THEN {Run(<<>>, Raise("AttributeError"))}
                 ELSE CallRuns(<<>>, AttrOf(p.method_string),
                               IF p.has_arg /\ p.arg_int # 0
                               THEN <<PyInt(p.arg_int)>> ELSE <<>>,
                               "getRef")

\* PdfFit.__getRef(var_string)
GetRef(var_string) ==
    LET called == IF var_string.t = "method"
                  THEN CallMethod(var_string) ELSE Ok(var_string)
    IN  IF called.err # "" THEN {Run(<<>>, called)}
        ELSE IF called.val.t # "str" THEN {Run(<<>>, Raise("AttributeError"))}
        ELSE LET p == ParseRef(called.val.s)
             IN  IF ~HasAttr(p.method_string)
                 THEN {Run(<<>>, Raise("AttributeError"))}
                 ELSE CallRuns(<<>>, AttrOf(p.method_string),
                               IF p.has_arg THEN <<PyInt(p.arg_int)>> ELSE <<>>,
                               "getRef")

\* a variant: the type of par is looked at before fcon
ConstrainCall_TypeFirst(var_ref, par, fcon) ==
    IF par.t = "str"
    THEN [fn |-> "constrain_str", args |-> <<var_ref, par>>]
    ELSE IF Truthy(fcon)
    THEN [fn |-> "constrain_int",
          args |-> <<var_ref, par, PyInt(FCONCode(fcon.s))>>]
    ELSE [fn |-> "constrain_int", args |-> <<var_ref, par>>]

\* the engine call constrain makes once var is resolved
ConstrainCall(var_ref, par, fcon) ==
    IF Truthy(fcon)
    THEN [fn |-> "constrain_int",
          args |-> <<var_ref, par, PyInt(FCONCode(fcon.s))>>]
    ELSE IF par.t = "str"
    THEN [fn |-> "constrain_str", args |-> <<var_ref, par>>]
    ELSE [fn |-> "constrain_int", args |-> <<var_ref, par>>]

\* PdfFit.constrain(var, par, fcon)
constrain(var, par, fcon) ==
    UNION { IF r.err # "" THEN {r}
            ELSE IF Truthy(fcon) /\ ~(fcon.t = "str" /\ HasFCON(fcon.s))
            THEN {Run(r.calls, Raise("KeyError"))}
            ELSE LET c == ConstrainCall(r.val, par, fcon)
                 IN  { Run(q.calls, IF q.err = "" THEN Ok(PyNone) ELSE Raise(q.err)) :
                         q \in CallRuns(r.calls, c.fn, c.args, "constrain") }
          : r \in GetRef(var) }

\* float(val) succeeds; the model's numbers and numeric texts are integers
IsFloatLit(val) ==
    \/ val.t \in {"int", "float", "bool"}
    \/ val.t = "str" /\ IsIntLit(val.s)

FloatOf(val) == IF val.t = "str" THEN PyFloat(IntVal(val.s)) ELSE PyFloat(val.n)

\* the except ValueError branch of setpar
SetparByRef(before, par, val) ==
    UNION { IF r.err # "" THEN {Run(before \o r.calls, r)}
            ELSE { Run(q.calls, IF q.err = "" THEN Ok(PyNone) ELSE Raise(q.err)) :
                     q \in CallRuns(before \o r.calls, "setpar_RV",
                                    <<par, r.val>>, "setpar") }
          : r \in GetRef(val) }

\* a variant: a str is resolved as an address without float() being tried
setpar_StrIsRef(par, val) ==
    LET called == IF val.t = "method" THEN CallMethod(val) ELSE Ok(val)
        v == called.val
    IN  IF called.err # "" THEN {Run(<<>>, called)}
        ELSE IF v.t = "none" THEN {Run(<<>>, Raise("TypeError"))}
        ELSE IF v.t = "str" THEN SetparByRef(<<>>, par, v)
        ELSE { Run(q.calls, IF q.err = "" THEN Ok(PyNone) ELSE Raise(q.err))
               : q \in CallRuns(<<>>, "setpar_dbl", <<par, FloatOf(v)>>, "setpar") }

\* PdfFit.setpar(par, val)
setpar(par, val) ==
    LET called == IF val.t = "method" THEN CallMethod(val) ELSE Ok(val)
        v == called.val
    IN  IF called.err # "" THEN {Run(<<>>, called)}
        ELSE IF v.t = "none" THEN {Run(<<>>, Raise("TypeError"))}
        ELSE IF ~IsFloatLit(v) THEN SetparByRef(<<>>, par, v)
        ELSE UNION { IF q.err = "ValueError"
                     THEN SetparByRef(q.calls, par, FloatOf(v))
                     ELSE {Run(q.calls, IF q.err = "" THEN Ok(PyNone) ELSE Raise(q.err))}
                   : q \in CallRuns(<<>>, "setpar_dbl", <<par, FloatOf(v)>>, "setpar") }

\* a variant: val is passed where the reference belongs
setvar_ArgsSwapped(var, val) ==
    UNION { IF r.err # "" THEN {r}
            ELSE { Run(q.calls, IF q.err = "" THEN Ok(PyNone) ELSE Raise(q.err)) :
                     q \in CallRuns(r.calls, "setvar", <<val, r.val>>, "setvar") }
          : r \in GetRef(var) }

\* PdfFit.setvar(var, val)
setvar(var, val) ==
    UNION { IF r.err # "" THEN {r}
            ELSE { Run(q.calls, IF q.err = "" THEN Ok(PyNone) ELSE Raise(q.err)) :
                     q \in CallRuns(r.calls, "setvar", <<r.val, val>>, "setvar") }
          : r \in GetRef(var) }

\* PdfFit.getvar(var)
getvar(var) ==
    UNION { IF r.err # "" THEN {r}
            ELSE CallRuns(r.calls, "getvar", <<r.val>>, "getvar")
          : r \in GetRef(var) }

\* type(par) in types.StringTypes
StringTypes == {"str", "unicode"}

\* a variant: the key is looked up as written
SelAlias_AsWritten(par) ==
    IF par.t \in StringTypes /\ par.s = AllKey THEN PyInt(ALL) ELSE par

\* the selector that reaches the engine: the value of the alias for a string
\* whose upper case is a key of selalias, the argument itself otherwise
SelAlias(par) ==
    IF par.t \in StringTypes /\ Upper(par.s) = AllKey THEN PyInt(ALL) ELSE par

\* a method that makes one engine call and returns None
Forward(fn, a) ==
    { Run(q.calls, IF q.err = "" THEN Ok(PyNone) ELSE Raise(q.err)) :
        q \in CallRuns(<<>>, fn, a, fn) }

\* PdfFit.fixpar(par), PdfFit.freepar(par)
fixpar(par) == Forward("fixpar", <<SelAlias(par)>>)
freepar(par) == Forward("freepar", <<SelAlias(par)>>)

\* PdfFit.psel(ip), PdfFit.pdesel(ip)
psel(ip) == Forward("psel", <<SelAlias(ip)>>)
pdesel(ip) == Forward("pdesel", <<SelAlias(ip)>>)

\* PdfFit.isel(iset, i), idesel, jsel, jdesel
isel(iset, i) == Forward("isel", <<iset, SelAlias(i)>>)
idesel(iset, i) == Forward("idesel", <<iset, SelAlias(i)>>)
jsel(iset, i) == Forward("jsel", <<iset, SelAlias(i)>>)
jdesel(iset, i) == Forward("jdesel", <<iset, SelAlias(i)>>)

\* the engine's part of PdfFit.read_struct(struct)
read_struct(struct) == Forward("read_struct", <<struct>>)

\* the engine's part of PdfFit.read_struct_string(struct, name)
read_struct_string(struct, name) == Forward("read_struct_string", <<struct>>)

\* self.Sctp[stype], then the engine call made with it
WithSctp(stype, fn, before, after) ==
    IF stype.t = "str" /\ HasSctp(stype.s)
    THEN Forward(fn, before \o <<PyInt(SctpCode(stype.s))>> \o after)
    ELSE {Run(<<>>, Raise("KeyError"))}

\* the engine's part of PdfFit.read_data(data, stype, qmax, sigmaq)
read_data(data, stype, qmax, sigmaq) ==
    WithSctp(stype, "read_data", <<data>>, <<qmax, sigmaq>>)

\* the engine's part of PdfFit.read_data_string(data, stype, qmax, sigmaq, name)
read_data_string(data, stype, qmax, sigmaq, name) ==
    WithSctp(stype, "read_data_string", <<data>>, <<qmax, sigmaq, name>>)

\* the engine's part of PdfFit.read_data_lists(stype, qmax, sigmaq, r_data,
\* Gr_data, dGr_data, name)
read_data_lists(stype, qmax, sigmaq, r_data, Gr_data, dGr_data, name) ==
    WithSctp(stype, "read_data_arrays", <<>>,
             <<qmax, sigmaq, r_data, Gr_data, dGr_data, name>>)

\* what read_data_string files the dataset under: "name = data"
DataStringLabel(data, name) == data

\* a variant: the entry is put in front
ListAppend_AtFront(files, entry) == <<entry>> \o files

\* files.append(entry)
ListAppend(files, entry) == Append(files, entry)

\* data_server.setDataDescriptor(name), as the observer sees it
SetDataDescriptor(name) ==
    [call |-> "setDataDescriptor", step |-> 0, finished |-> PyNone,
     name |-> name.s]

\* a variant: the default tolerance is passed in place of the argument
refine_step_DefaultToler(toler) ==
    CallRuns(<<>>, "refine_step", <<PyFloat(1)>>, "refine_step")

\* PdfFit.refine_step(toler): the value of a run is both what is stored in
\* self.finished and what is returned
refine_step(toler) == CallRuns(<<>>, "refine_step", <<toler>>, "refine_step")

\* a variant: a step that raised is recorded as not finished
StoreFinished_FalseOnError(old, r) ==
    IF r.err = "" THEN r.val ELSE PyBool(FALSE)

\* self.finished = pdffit2.refine_step(...): assigned only when the call
\* returns; a call that raises leaves the attribute as it was
StoreFinished(old, r) == IF r.err = "" THEN r.val ELSE old

(***************************************************************************)
(* PdfFit.refine, statement by statement                                   *)
(***************************************************************************)
\* a variant: the loop condition inverted
RefineContinues_Inverted(finished) == Truthy(finished)

\* while not finished:
RefineContinues(finished) == ~Truthy(finished)

\* finished = pdffit2.refine_step(self._handle, toler)
RefineCall(toler) == [fn |-> "refine_step", args |-> <<toler>>]

\* step += 1
RefineNextStep(step) == step + 1

\* a variant: the observer is told before step is incremented
ObserverUpdate_BeforeIncrement(step, finished) ==
    [call |-> "update", step |-> step - 1, finished |-> finished, name |-> <<>>]

\* self.data_server.update(self, step, finished)
ObserverUpdate(step, finished) ==
    [call |-> "update", step |-> step, finished |-> finished, name |-> <<>>]

(***************************************************************************)
(* The state: the session object, the method call in progress or last      *)
(* made, and what that call did.                                           *)
(***************************************************************************)
VARIABLES
    data_server,    \* self.data_server: TRUE when an observer is attached
    stru_files,     \* self.stru_files
    data_files,     \* self.data_files
    finished,       \* self.finished; PyUndef until refine_step sets it
    pfree,          \* the engine's parameters that are free to vary
    pc,             \* "idle", or the place of the refine call in progress
    step,           \* refine's local step
    loopfin,        \* refine's local finished
    toler,          \* refine's argument toler
    op,             \* the method called last
    args,           \* its arguments
    calls,          \* the engine calls it made, in order
    notes,          \* the calls it made on the observer, in order
    result          \* what it returned or raised

vars == <<data_server, stru_files, data_files, finished, pfree, pc, step,
          loopfin, toler, op, args, calls, notes, result>>

session == <<data_server, stru_files, data_files, finished>>
locals == <<step, loopfin, toler>>

PyUndef == Val("undef", 0, <<>>)

\* PdfFit.__init__(data_server)
Init ==
    /\ data_server \in BOOLEAN
    /\ stru_files = <<>>
    /\ data_files = <<>>
    /\ finished = PyUndef
    /\ pfree = Pars
    /\ pc = "idle"
    /\ step = 0
    /\ loopfin = PyInt(0)
    /\ toler = PyNone
    /\ op = "__init__"
    /\ args = <<>>
    /\ calls = <<>>
    /\ notes = <<>>
    /\ result = Ok(PyNone)

(***************************************************************************)
(* The values callers pass                                                 *)
(***************************************************************************)
\* tolerances; 1 stands for the default 0.00000001
DefaultToler == PyFloat(1)
Tolerances == {PyFloat(k) : k \in 1..2}

Slots == {PyInt(k) : k \in 1..MaxPar}
Formulas == {PyStr(<<"@", "1">>)}
Modes ==
    {PyNone, PyStr(<<>>), PyStr(<<"B","O","G","U","S">>)}
        \cup {PyStr(FCON[k]) : k \in 1..Len(FCON)}

\* addresses as callers write them, well formed and not
Addr(name, mid) == name \o <<"(">> \o mid \o <<")">>
SmallAddrs ==
    { Addr(Chars.lat, <<"1">>), Addr(Chars.lat, <<"6">>),
      Addr(Chars.lat, <<"7">>), Addr(Chars.lat, <<"0">>),
      Addr(Chars.lat, <<"-", "1">>), Addr(Chars.lat, <<"1", "x">>),
      Addr(Chars.x, <<"1">>), Addr(Chars.x, IntStr(NumAtoms + 1)),
      Addr(Chars.x, <<" ", "2", " ">>),
      Chars.x \o <<"(", "1">>, Chars.x \o <<"(", "1", ")", ")">>,
      Addr(Chars.x, <<>>), Chars.x,
      Chars.pscale, Addr(Chars.pscale, <<"1">>), Chars.gamma,
      <<"a">>, <<"f", "o", "o">>,
      Chars.reset, Addr(Chars.fixpar, <<"-", "1">>) }

Methods == {PyMethod(Chars.qsig), PyMethod(PfracName), PyMethod(Chars.x)}

VarInputs == {PyStr(s) : s \in SmallAddrs} \cup Methods

\* the addresses tried with every target, mode and value
BindInputs ==
    { PyStr(Addr(Chars.x, <<"1">>)), PyStr(Addr(Chars.lat, <<"7">>)),
      PyStr(Chars.x \o <<"(", "1">>), PyMethod(Chars.qsig) }
NumInputs == {PyInt(1), PyFloat(2), PyStr(<<" ", "3">>), PyNone}

\* what lat() is given: a name, an index, or neither
LatInputs ==
    {PyStr(LatParams[k]) : k \in 1..Len(LatParams)}
        \cup {PyStr(<<"f", "o", "o">>), PyStr(<<"7">>), PyNone}
        \cup {PyInt(k) : k \in 0..(LatCount + 1)}

(***************************************************************************)
(* The methods as actions.  A method other than refine runs in one step.   *)
(***************************************************************************)
\* a method that leaves the session as it is, having run as r
Finish(name, a, r) ==
    /\ pfree' = ParAfter(pfree, r.calls)
    /\ op' = name
    /\ args' = a
    /\ calls' = r.calls
    /\ notes' = <<>>
    /\ result' = [err |-> r.err, val |-> r.val]
    /\ UNCHANGED <<pc, locals>>

RefineStep ==
    /\ pc = "idle"
    /\ \E t \in Tolerances : \E r \in refine_step(t) :
         /\ Finish("refine_step", <<t>>, r)
         /\ finished' = StoreFinished(finished, r)
    /\ UNCHANGED <<data_server, stru_files, data_files>>

Constrain(vs) ==
    /\ pc = "idle"
    /\ \E v \in vs, p \in Slots \cup Formulas, f \in Modes :
         \E r \in constrain(v, p, f) : Finish("constrain", <<v, p, f>>, r)
    /\ UNCHANGED session

Setpar(vs) ==
    /\ pc = "idle"
    /\ \E p \in Slots, v \in vs \cup NumInputs :
         \E r \in setpar(p, v) : Finish("setpar", <<p, v>>, r)
    /\ UNCHANGED session

Setvar(vs) ==
    /\ pc = "idle"
    /\ \E v \in vs, x \in {PyFloat(1)} :
         \E r \in setvar(v, x) : Finish("setvar", <<v, x>>, r)
    /\ UNCHANGED session

Getvar(vs) ==
    /\ pc = "idle"
    /\ \E v \in vs : \E r \in getvar(v) : Finish("getvar", <<v>>, r)
    /\ UNCHANGED session

\* getvar(lat(n)): the address built by the formatter, then resolved
GetvarLat ==
    /\ pc = "idle"
    /\ \E n \in LatInputs :
         LET f == lat(n)
         IN  \E r \in (IF f.err # "" THEN {Run(<<>>, f)} ELSE getvar(f.val)) :
               Finish("getvar_lat", <<n>>, r)
    /\ UNCHANGED session

\* refine(toler) is entered
RefineStart ==
    /\ pc = "idle"
    /\ \E t \in Tolerances :
         /\ toler' = t
         /\ args' = <<t>>
    /\ op' = "refine"
    /\ step' = 0
    /\ loopfin' = PyInt(0)
    /\ calls' = <<>>
    /\ notes' = <<>>
    /\ result' = Ok(PyNone)
    /\ pc' = "while"
    /\ UNCHANGED <<session, pfree>>

\* one pass of the loop body up to the observer: the engine iterates
RefineIterate ==
    /\ pc = "while"
    /\ RefineContinues(loopfin)
    /\ step < MaxSteps
    /\ LET c == RefineCall(toler)
       IN  \E o \in EngineOutcomes(c.fn, c.args) :
             /\ calls' = Append(calls, Call(c.fn, c.args, "refine", o))
             /\ IF o.err # ""
                THEN /\ result' = o
                     /\ pc' = "idle"
                     /\ step' = 0
                     /\ loopfin' = PyInt(0)
                     /\ toler' = PyNone
                ELSE /\ loopfin' = o.val
                     /\ step' = RefineNextStep(step)
                     /\ pc' = IF data_server THEN "update" ELSE "while"
                     /\ UNCHANGED <<result, toler>>
    /\ UNCHANGED <<session, pfree, op, args, notes>>

\* the observer is told of the step; it returns, or raises to stop the run
\* (the time.sleep(0.1) that follows changes no state)
RefineUpdate ==
    /\ pc = "update"
    /\ notes' = Append(notes, ObserverUpdate(step, loopfin))
    /\ \E raises \in BOOLEAN :
         IF raises
         THEN /\ result' = Raise("ObserverError")
              /\ pc' = "idle"
              /\ step' = 0
              /\ loopfin' = PyInt(0)
              /\ toler' = PyNone
         ELSE /\ pc' = "while"
              /\ UNCHANGED <<result, locals>>
    /\ UNCHANGED <<session, pfree, op, args, calls>>

\* the loop ends and refine returns
RefineReturn ==
    /\ pc = "while"
    /\ ~RefineContinues(loopfin)
    /\ result' = Ok(PyNone)
    /\ pc' = "idle"
    /\ step' = 0
    /\ loopfin' = PyInt(0)
    /\ toler' = PyNone
    /\ UNCHANGED <<session, pfree, op, args, calls, notes>>

\* PdfFit.reset()
Reset ==
    /\ pc = "idle"
    /\ stru_files' = <<>>
    /\ data_files' = <<>>
    /\ Finish("reset", <<>>, Run(<<Call("reset", <<>>, "reset", Ok(PyNone))>>, Ok(PyNone)))
    /\ UNCHANGED <<data_server, finished>>

Next ==
    \/ RefineStep
    \/ RefineStart
    \/ RefineIterate
    \/ RefineUpdate
    \/ RefineReturn
    \/ Constrain(BindInputs)
    \/ Setpar(BindInputs)
    \/ Setvar(BindInputs)
    \/ Getvar(VarInputs)
    \/ GetvarLat
    \/ Reset

Spec == Init /\ [][Next]_vars

(***************************************************************************)
(* Properties                                                              *)
(***************************************************************************)
EngineErrors == {"calculationError", "constraintError", "unassignedError"}
Returned(name) == pc = "idle" /\ op = name /\ result.err = ""
Converged(c) == c.out.err = "" /\ Truthy(c.out.val)

\* C1: in a refine call with an observer attached, the observer is told once
\* after every engine iteration and before the next one starts, the steps it
\* is told are 1, 2, 3, ... with the engine's answer of that iteration, every
\* notification but the last says not finished, and when refine returns the
\* last one says finished.
C1_ObserverOncePerStep ==
    (op = "refine" /\ data_server) =>
        /\ \A i \in 1..Len(notes) :
             /\ notes[i].call = "update"
             /\ notes[i].step = i
             /\ i <= Len(calls)
             /\ calls[i].out.err = ""
             /\ notes[i].finished = calls[i].out.val
        /\ \A i \in 1..(Len(notes) - 1) : ~Truthy(notes[i].finished)
        /\ pc = "while" => Len(notes) = Len(calls)
        /\ pc = "update" => Len(notes) = Len(calls) - 1
        /\ pc = "idle" =>
             Len(notes) = Cardinality({i \in 1..Len(calls) : calls[i].out.err = ""})
        /\ Returned("refine") =>
             /\ Len(notes) >= 1
             /\ Truthy(notes[Len(notes)].finished)

C1_Witness ==
    /\ Returned("refine")
    /\ data_server
    /\ Len(notes) >= 2
    /\ Len(notes) = Len(calls)

\* C2: refine_step(toler) makes exactly one engine call, refine_step with the
\* tolerance it was given, and returns what the engine answered (or raises
\* what the engine raised).
C2_StepIsOneEngineCall ==
    (op = "refine_step") =>
        /\ Len(calls) = 1
        /\ calls[1].fn = "refine_step"
        /\ calls[1].args = <<args[1]>>
        /\ result = calls[1].out

C2_Witness ==
    /\ op = "refine_step"
    /\ args[1] # DefaultToler
    /\ result = Ok(PyBool(FALSE))
    /\ finished = PyBool(FALSE)

\* C3 as claimed: after the engine raises during an iteration of refine_step
\* or refine, the recorded convergence status is neither converged nor what
\* an earlier successful step left.
C3_FailedAfterError ==
    (pc = "idle" /\ op \in {"refine_step", "refine"} /\ result.err \in EngineErrors)
        => finished \notin {PyBool(TRUE), PyBool(FALSE)}

\* C3, amended: when the engine raises during an iteration of refine_step or
\* refine, the call raises that error, the failed iteration is the last
\* engine call of the call, and the recorded convergence status is left as
\* it was before the call; refine never writes it.
C3_ErrorPropagatesStatusKept ==
    /\ []((pc = "idle" /\ op \in {"refine_step", "refine"}
             /\ result.err \in EngineErrors) =>
            /\ calls # <<>>
            /\ calls[Len(calls)].out = result
            /\ \A i \in 1..(Len(calls) - 1) : calls[i].out.err = "")
    /\ [][(pc' = "idle" /\ op' \in {"refine_step", "refine"}
             /\ result'.err \in EngineErrors) => finished' = finished]_vars
    /\ [][op' = "refine" => finished' = finished]_vars

C3_Witness ==
    /\ pc = "idle"
    /\ op = "refine_step"
    /\ result.err = "calculationError"
    /\ finished = PyBool(TRUE)

C3_WitnessRefine ==
    /\ pc = "idle"
    /\ op = "refine"
    /\ result.err = "constraintError"
    /\ Len(calls) = 2
    /\ finished = PyBool(TRUE)

\* C4: refine makes no engine iteration after one that reported convergence,
\* returns only when its last iteration reported convergence, returns then,
\* and until then always goes on to another iteration (no step limit but the
\* model's).
C4_RefineStopsAtConvergence ==
    (op = "refine") =>
        /\ \A i \in 1..Len(calls) :
             /\ calls[i].fn = "refine_step"
             /\ calls[i].args = <<args[1]>>
             /\ Converged(calls[i]) => i = Len(calls)
             /\ calls[i].out.err # "" => i = Len(calls)
        /\ Returned("refine") =>
             /\ Len(calls) >= 1
             /\ Converged(calls[Len(calls)])
        /\ (pc = "while" /\ calls # <<>> /\ Converged(calls[Len(calls)])) =>
             /\ ENABLED RefineReturn
             /\ ~ENABLED RefineIterate
        /\ (pc = "while" /\ (calls = <<>> \/ ~Converged(calls[Len(calls)]))) =>
             /\ ~ENABLED RefineReturn
             /\ step < MaxSteps => ENABLED RefineIterate

C4_Witness ==
    /\ Returned("refine")
    /\ Len(calls) = 3
    /\ \A i \in 1..2 : ~Converged(calls[i])

\* the calls a method made itself, and those __getRef made for it
OwnCalls == {i \in 1..Len(calls) : calls[i].by # "getRef"}
RefCalls == {i \in 1..Len(calls) : calls[i].by = "getRef"}
Resolved == calls # <<>> /\ calls[1].by = "getRef" /\ calls[1].out.err = ""

ModeCode(key) ==
    CASE key = <<"U","S","E","R">> -> 0
      [] key = <<"I","D","E","N","T">> -> 1
      [] key = <<"F","C","O","M","P">> -> 2
      [] key = <<"F","S","Q","R">> -> 3
ModeNames ==
    {<<"U","S","E","R">>, <<"I","D","E","N","T">>,
     <<"F","C","O","M","P">>, <<"F","S","Q","R">>}

\* C5: constrain(var, par, fcon), once var is resolved: with a mode given it
\* calls constrain_int with the reference, par and the mode's code (USER 0,
\* IDENT 1, FCOMP 2, FSQR 3) whatever par is; with none, constrain_str for a
\* str par and constrain_int with no mode for any other par.  It never makes
\* more than one binding call, and makes exactly one when it succeeds.
C5_ConstrainPicksBinding ==
    (op = "constrain") =>
        LET par == args[2]
            fcon == args[3]
            ref == calls[1].out.val
        IN  /\ Cardinality(OwnCalls) <= 1
            /\ result.err = "" => Cardinality(OwnCalls) = 1
            /\ OwnCalls # {} => Resolved /\ OwnCalls = {2}
            /\ (Resolved /\ fcon.t = "str" /\ fcon.s \in ModeNames) =>
                 /\ Len(calls) = 2
                 /\ calls[2].fn = "constrain_int"
                 /\ calls[2].args = <<ref, par, PyInt(ModeCode(fcon.s))>>
            /\ (Resolved /\ (fcon = PyNone \/ fcon = PyStr(<<>>))) =>
                 /\ Len(calls) = 2
                 /\ calls[2].fn = IF par.t = "str" THEN "constrain_str"
                                  ELSE "constrain_int"
                 /\ calls[2].args = <<ref, par>>

C5_Witness ==
    /\ op = "constrain"
    /\ args[3] = PyStr(<<"F","S","Q","R">>)
    /\ args[2].t = "str"
    /\ Len(calls) = 2
    /\ calls[2].fn = "constrain_int"

\* the value setpar works on: val, or val() for a method
SetparValue == IF args[2].t = "method" THEN CallMethod(args[2]) ELSE Ok(args[2])
CallsOf(fn) == {i \in 1..Len(calls) : calls[i].fn = fn}

\* C6: setpar(par, val) with a val that float() accepts makes one setpar_dbl
\* call with the number and no setpar_RV call; with a str that float()
\* rejects it makes no setpar_dbl call, resolves the str and, when that
\* succeeds, makes one setpar_RV call with the reference; a method is called
\* first and its str treated so.  A setpar that succeeds has made exactly one
\* of the two calls.
C6_SetparNumberFirst ==
    (op = "setpar") =>
        LET v == SetparValue
        IN  /\ result.err = "" =>
                 Cardinality(CallsOf("setpar_dbl") \cup CallsOf("setpar_RV")) = 1
            /\ (v.err = "" /\ IsFloatLit(v.val)) =>
                 /\ CallsOf("setpar_dbl") = {1}
                 /\ calls[1].args = <<args[1], FloatOf(v.val)>>
                 /\ CallsOf("setpar_RV") = {}
            /\ (v.err = "" /\ v.val.t = "str" /\ ~IsFloatLit(v.val)) =>
                 /\ CallsOf("setpar_dbl") = {}
                 /\ \A i \in 1..Len(calls) : calls[i].by = "getRef" <=> i = 1
                 /\ Resolved <=> CallsOf("setpar_RV") = {2}
                 /\ Resolved => calls[2].args = <<args[1], calls[1].out.val>>
            /\ v.err # "" => calls = <<>> /\ result.err = v.err

C6_Witness ==
    /\ op = "setpar"
    /\ args[2] = PyMethod(Chars.qsig)
    /\ result.err = ""
    /\ CallsOf("setpar_RV") = {2}
    /\ calls[1].fn = "qsig"

C6_WitnessNumber ==
    /\ op = "setpar"
    /\ args[2] = PyStr(<<" ", "3">>)
    /\ result.err = ""
    /\ CallsOf("setpar_dbl") = {1}

(***************************************************************************)
(* The grammar of a textual address: name, or name(index) with name a      *)
(* variable of the engine, index a positive decimal integer, blanks        *)
(* allowed around the whole and around the index.                          *)
(***************************************************************************)
WellFormedAddr(s) ==
    LET b == Strip(s)
    IN  \E k \in Kinds :
          LET n == Len(Chars[k])
          IN  \/ k \in ScalarKinds /\ b = Chars[k]
              \/ /\ k \in IndexedKinds
                 /\ Len(b) >= n + 3
                 /\ SubSeq(b, 1, n) = Chars[k]
                 /\ b[n + 1] = "("
                 /\ b[Len(b)] = ")"
                 /\ LET mid == Strip(SubSeq(b, n + 2, Len(b) - 1))
                    IN  AllDigits(mid) /\ DigitsVal(mid) >= 1

\* C7: a textual address is resolved only when it has the exact grammar
\* name or name(index); every other string ends in an error.
C7_OnlyExactGrammarResolves ==
    (op \in {"getvar", "setvar", "constrain"} /\ args[1].t = "str" /\ Resolved)
        => WellFormedAddr(args[1].s)

\* C8 as claimed: resolving an address makes no call on the engine.
C8_ResolveMakesNoEngineCall == RefCalls = {}

AddrOps == {"constrain", "setpar", "setvar", "getvar", "getvar_lat"}

\* C8, amended: resolving an address makes at most one engine call, the
\* first call of the method: the engine function the text names, given the
\* index when the text has one; what it returns is the reference the
\* method's own call is given; and a method that takes an address leaves
\* the session's name lists, observer and convergence status as they were.
C8_ResolveIsOneLookup ==
    /\ [](op \in AddrOps =>
            /\ RefCalls \subseteq {1}
            /\ \A i \in OwnCalls :
                 calls[i].fn \in {"constrain_int", "constrain_str", "setvar",
                                  "getvar", "setpar_RV"}
                     => /\ Resolved
                        /\ i = 2
                        /\ calls[i].args[IF calls[i].fn = "setpar_RV" THEN 2 ELSE 1]
                               = calls[1].out.val
            /\ (RefCalls # {} /\ op \in {"constrain", "setvar", "getvar"}
                  /\ args[1].t = "str") =>
                 LET parts == Split(args[1].s, "(")
                 IN  /\ Chars[calls[1].fn] = Strip(parts[1])
                     /\ Len(calls[1].args) = Len(parts) - 1)
    /\ [][op' \in AddrOps => UNCHANGED session]_vars

C8_Witness ==
    /\ op = "setvar"
    /\ args[1] = PyStr(Addr(Chars.x, <<"1">>))
    /\ Len(calls) = 2
    /\ calls[1].fn = "x"
    /\ calls[1].args = <<PyInt(1)>>
    /\ result.err = ""
    /\ finished # PyUndef

\* the index the lat() docstring gives each name
SynonymIndex(name) ==
    CASE name = <<"a">> -> 1
      [] name = <<"b">> -> 2
      [] name = <<"c">> -> 3
      [] name = <<"a","l","p","h","a">> -> 4
      [] name = <<"b","e","t","a">> -> 5
      [] name = <<"g","a","m","m","a">> -> 6
Synonyms ==
    {<<"a">>, <<"b">>, <<"c">>, <<"a","l","p","h","a">>, <<"b","e","t","a">>,
     <<"g","a","m","m","a">>}

\* C9 as claimed: resolving the name a, b, c, alpha, beta or gamma looks up
\* the lattice variable of its index, as resolving lat(index) does.
C9_NameResolvesAsLat ==
    (op = "getvar" /\ args[1].t = "str" /\ args[1].s \in Synonyms) =>
        /\ calls # <<>>
        /\ calls[1].fn = "lat"
        /\ calls[1].args = <<PyInt(SynonymIndex(args[1].s))>>

\* C9, amended: lat(name) for a name of the six gives the address lat(index)
\* gives, so resolving either looks up the same lattice variable; the bare
\* text "gamma" resolves to the scalar gamma, not to lattice index 6; lat of
\* any other str raises KeyError before any engine call, which is another
\* error than the AttributeError a malformed integer index in an address
\* text ends in.
C9_LatSynonyms ==
    /\ (op = "getvar_lat" /\ args[1].t = "str" /\ args[1].s \in Synonyms) =>
         /\ calls # <<>>
         /\ calls[1] = Call("lat", <<PyInt(SynonymIndex(args[1].s))>>, "getRef",
                            calls[1].out)
    /\ (op = "getvar_lat" /\ args[1].t = "int" /\ args[1].n \in 1..6) =>
         /\ calls # <<>>
         /\ calls[1] = Call("lat", <<args[1]>>, "getRef", calls[1].out)
    /\ \A k \in 1..6 :
         (op = "getvar" /\ args[1] = PyStr(Addr(Chars.lat, <<DigitChr(k)>>))) =>
             /\ calls # <<>>
             /\ calls[1] = Call("lat", <<PyInt(k)>>, "getRef", calls[1].out)
    /\ (op = "getvar_lat" /\ args[1].t = "str" /\ args[1].s \notin Synonyms) =>
         /\ calls = <<>>
         /\ result.err = "KeyError"
    /\ (op = "getvar" /\ args[1] = PyStr(Chars.gamma)) =>
         /\ calls # <<>>
         /\ calls[1].fn = "gamma"
         /\ calls[1].args = <<>>
    /\ (op = "getvar" /\ args[1] = PyStr(Addr(Chars.lat, <<"1", "x">>))) =>
         /\ calls = <<>>
         /\ result.err = "AttributeError"

C9_Witness ==
    /\ op = "getvar_lat"
    /\ args[1] = PyStr(<<"g","a","m","m","a">>)
    /\ calls[1].args = <<PyInt(6)>>
    /\ result.err = ""

\* an address of a lattice variable the engine does not hold
BadLat(v) ==
    \E i \in ((0 - 1)..(LatCount + 3)) \ (1..6) :
        v = PyStr(Addr(Chars.lat, IntStr(i)))

\* C10: constrain, setvar, getvar and setpar given lat(i) with i outside 1..6
\* raise ValueError, having made the lookup and no other engine call: no
\* binding and no value reaches the engine.
C10_BadLatticeIndexFails ==
    LET bad == \/ op \in {"constrain", "setvar", "getvar"} /\ BadLat(args[1])
               \/ op = "setpar" /\ BadLat(args[2])
               \/ op = "getvar_lat" /\ args[1].t = "int" /\ args[1].n \notin 1..6
    IN  bad => /\ result.err = "ValueError"
               /\ Len(calls) = 1
               /\ calls[1].by = "getRef"
               /\ calls[1].fn = "lat"

C10_Witness ==
    /\ op = "constrain"
    /\ args[1] = PyStr(Addr(Chars.lat, <<"7">>))
    /\ args[3] = PyStr(<<"I","D","E","N","T">>)
    /\ result.err = "ValueError"

C10_WitnessSetpar ==
    /\ op = "setpar"
    /\ args[2] = PyStr(Addr(Chars.lat, <<"7">>))
    /\ result.err = "ValueError"

(***************************************************************************)
(* The formatters and the resolver together: an address is built by the    *)
(* formatter of a kind and handed to getvar, as PdfFit's callers do.       *)
(***************************************************************************)
FmtIndices == (0 - 1)..MaxIndex

\* a kind with the arguments of its formatter: <<i>> or none
FormatPairs ==
    {<<k, <<PyInt(i)>> >> : k \in IndexedKinds, i \in FmtIndices}
        \cup {<<k, <<>> >> : k \in ScalarKinds}

\* PdfFit.<kind>(*a)
FormatKind(kind, a) ==
    IF kind \in ScalarKinds THEN FormatScalar(kind)
    ELSE IF kind = "lat" THEN lat(a[1])
    ELSE FormatAtom(kind, a[1])

\* getvar(<kind>(*a)) for every kind
GetvarFormatted ==
    /\ pc = "idle"
    /\ \E fp \in FormatPairs :
         LET f == FormatKind(fp[1], fp[2])
         IN  \E r \in (IF f.err # "" THEN {Run(<<>>, f)} ELSE getvar(f.val)) :
               Finish("getvar_fmt", <<PyStr(Chars[fp[1]])>> \o fp[2], r)
    /\ UNCHANGED session

NextFormat == GetvarFormatted

SpecFormat == Init /\ [][NextFormat]_vars

\* C11: the address a formatter builds for (kind, i), or for a kind without
\* index, is resolved to the engine function of that kind called with i, or
\* with the handle alone; and no other (kind, index) formats to that address.
C11_FormatParseRoundTrip ==
    op = "getvar_fmt" =>
        LET kind == AttrOf(args[1].s)
            a == Tail(args)
        IN  /\ calls # <<>>
            /\ calls[1].by = "getRef"
            /\ calls[1].fn = kind
            /\ calls[1].args = a
            /\ (kind \in ScalarKinds) = (a = <<>>)
            /\ \A fp \in FormatPairs :
                   FormatKind(fp[1], fp[2]) = FormatKind(kind, a)
                       => fp = <<kind, a>>

C11_Witness ==
    /\ op = "getvar_fmt"
    /\ args = <<PyStr(Chars.u12), PyInt(MaxIndex)>>
    /\ calls[1].fn = "u12"
    /\ calls[1].args = <<PyInt(MaxIndex)>>

C11_WitnessScalar ==
    /\ op = "getvar_fmt"
    /\ args = <<PyStr(Chars.dscale)>>
    /\ calls[1].fn = "dscale"
    /\ result.err = ""

(***************************************************************************)
(* Fixing, freeing and selecting: the methods that take the alias ALL      *)
(***************************************************************************)
\* "ALL" in every letter case
AllSpellings ==
    {PyStr(w) : w \in {v \in [1..3 -> {"a", "A", "l", "L"}] : Upper(v) = AllKey}}

\* strings that are no spelling of ALL
OtherNames == {PyStr(<<"f", "o", "o">>), PyStr(<<"a", "l">>), PyStr(<<>>)}

ParSelectors ==
    {PyInt(k) : k \in 1..(NumPars + 1)} \cup {PyInt(ALL)}
        \cup AllSpellings \cup OtherNames

SelSelectors ==
    {PyInt(1), PyStr(AllKey), PyStr(<<"a", "l", "l">>)} \cup OtherNames

Fixpar ==
    /\ pc = "idle"
    /\ \E par \in ParSelectors : \E r \in fixpar(par) :
         Finish("fixpar", <<par>>, r)
    /\ UNCHANGED session

Freepar ==
    /\ pc = "idle"
    /\ \E par \in ParSelectors : \E r \in freepar(par) :
         Finish("freepar", <<par>>, r)
    /\ UNCHANGED session

Psel ==
    /\ pc = "idle"
    /\ \E ip \in SelSelectors : \E r \in psel(ip) : Finish("psel", <<ip>>, r)
    /\ UNCHANGED session

Pdesel ==
    /\ pc = "idle"
    /\ \E ip \in SelSelectors : \E r \in pdesel(ip) :
         Finish("pdesel", <<ip>>, r)
    /\ UNCHANGED session

Isel ==
    /\ pc = "idle"
    /\ \E i \in SelSelectors : \E r \in isel(PyInt(1), i) :
         Finish("isel", <<PyInt(1), i>>, r)
    /\ UNCHANGED session

Idesel ==
    /\ pc = "idle"
    /\ \E i \in SelSelectors : \E r \in idesel(PyInt(1), i) :
         Finish("idesel", <<PyInt(1), i>>, r)
    /\ UNCHANGED session

Jsel ==
    /\ pc = "idle"
    /\ \E i \in SelSelectors : \E r \in jsel(PyInt(1), i) :
         Finish("jsel", <<PyInt(1), i>>, r)
    /\ UNCHANGED session

Jdesel ==
    /\ pc = "idle"
    /\ \E i \in SelSelectors : \E r \in jdesel(PyInt(1), i) :
         Finish("jdesel", <<PyInt(1), i>>, r)
    /\ UNCHANGED session

NextSel ==
    \/ Fixpar
    \/ Freepar
    \/ Psel
    \/ Pdesel
    \/ Isel
    \/ Idesel
    \/ Jsel
    \/ Jdesel
    \/ Reset

SpecSel == Init /\ [][NextSel]_vars

IsAllSpelling(v) == v.t \in StringTypes /\ Upper(v.s) = AllKey

\* C12: a step that is fixpar or freepar given ALL in any letter case makes
\* the one engine call with -1; given an integer it passes that integer, and
\* when that integer is a slot no other slot changes status and the slot is
\* fixed (free) once the call returns; freepar(slot) of a parameter the
\* engine holds, returning right after fixpar(ALL) returned, leaves that
\* parameter as the only free one.
C12_FixAllFreeOne ==
    [][ op' \in {"fixpar", "freepar"} =>
          /\ Len(calls') = 1
          /\ calls'[1].fn = op'
          /\ IsAllSpelling(args'[1]) => calls'[1].args = <<PyInt(ALL)>>
          /\ args'[1].t = "int" => calls'[1].args = <<args'[1]>>
          /\ (args'[1].t = "int" /\ args'[1].n # ALL) =>
                /\ pfree' \ {args'[1].n} = pfree \ {args'[1].n}
                /\ (result'.err = "" /\ op' = "fixpar") => args'[1].n \notin pfree'
                /\ (result'.err = "" /\ op' = "freepar") => args'[1].n \in pfree'
          /\ ( /\ op = "fixpar" /\ IsAllSpelling(args[1]) /\ result.err = ""
               /\ op' = "freepar" /\ args'[1].t = "int" /\ args'[1].n \in Pars
               /\ result'.err = "" )
                => pfree' = {args'[1].n}
      ]_vars

\* fixpar("all") returned and every parameter is fixed
C12_Witness ==
    /\ op = "fixpar"
    /\ args = <<PyStr(<<"a", "l", "l">>)>>
    /\ calls[1].args = <<PyInt(ALL)>>
    /\ result.err = ""
    /\ pfree = {}

\* freepar(NumPars) returned and that parameter is the only free one
C12_WitnessFreeOne ==
    /\ op = "freepar"
    /\ args = <<PyInt(NumPars)>>
    /\ result.err = ""
    /\ pfree = {NumPars}

SelOps ==
    {"fixpar", "freepar", "psel", "pdesel", "isel", "idesel", "jsel", "jdesel"}

\* the selector among the arguments of a selecting method: the last one
Selector == args[Len(args)]

\* C14: a method that takes the alias, given a string that is no spelling of
\* ALL, raises a lookup or value error and has made no engine call.
C14_UnknownAliasRejected ==
    (op \in SelOps /\ Selector.t \in StringTypes /\ ~IsAllSpelling(Selector))
        => /\ calls = <<>>
           /\ result.err \in {"KeyError", "ValueError"}

\* what the methods do with such a string: it is the engine's argument
C14_StringForwarded ==
    /\ op = "isel"
    /\ Selector = PyStr(<<"f", "o", "o">>)
    /\ calls = <<Call("isel", <<PyInt(1), PyStr(<<"f", "o", "o">>)>>, "isel",
                       Raise("TypeError"))>>

(***************************************************************************)
(* Loading: the methods that add to the name lists                         *)
(***************************************************************************)
FileNames == {PyStr(<<"f">>)}
Tags == {PyStr(<<"t">>)}
Contents == {PyStr(<<"1", " ", "2">>)}
\* the default name of read_data_lists
ListTags == {PyStr(<<"l", "i", "s", "t">>)}
ScatTypes == {PyStr(<<"X">>), PyStr(<<"N">>), PyStr(<<"Q">>)}
Qmax == PyFloat(30)
Sigmaq == PyFloat(0)
DataLists == {PyList(2), PyList(3)}

\* a method returns as res, having run as r and told the observer n
Note(name, a, r, n, res) ==
    /\ pfree' = ParAfter(pfree, r.calls)
    /\ op' = name
    /\ args' = a
    /\ calls' = r.calls
    /\ notes' = n
    /\ result' = res
    /\ UNCHANGED <<pc, locals>>

\* "if self.data_server: self.data_server.setDataDescriptor(label)", and the
\* return; the observer returns or raises
Describe(name, a, r, label) ==
    IF data_server
    THEN \E raises \in BOOLEAN :
           Note(name, a, r, <<SetDataDescriptor(label)>>,
                IF raises THEN Raise("ObserverError") ELSE Ok(PyNone))
    ELSE Finish(name, a, r)

ReadStruct ==
    /\ pc = "idle"
    /\ Len(stru_files) < MaxFiles
    /\ \E struct \in FileNames : \E r \in read_struct(struct) :
         /\ Finish("read_struct", <<struct>>, r)
         /\ stru_files' = IF r.err = "" THEN ListAppend(stru_files, struct)
                          ELSE stru_files
    /\ UNCHANGED <<data_server, data_files, finished>>

ReadStructString ==
    /\ pc = "idle"
    /\ Len(stru_files) < MaxFiles
    /\ \E struct \in Contents, name \in Tags :
         \E r \in read_struct_string(struct, name) :
           /\ Finish("read_struct_string", <<struct, name>>, r)
           /\ stru_files' = IF r.err = "" THEN ListAppend(stru_files, name)
                            ELSE stru_files
    /\ UNCHANGED <<data_server, data_files, finished>>

ReadData ==
    /\ pc = "idle"
    /\ Len(data_files) < MaxFiles
    /\ \E data \in FileNames, stype \in ScatTypes :
         LET a == <<data, stype, Qmax, Sigmaq>>
         IN  \E r \in read_data(data, stype, Qmax, Sigmaq) :
               IF r.err # ""
               THEN Finish("read_data", a, r) /\ UNCHANGED data_files
               ELSE /\ data_files' = ListAppend(data_files, data)
                    /\ Describe("read_data", a, r, data)
    /\ UNCHANGED <<data_server, stru_files, finished>>

ReadDataString ==
    /\ pc = "idle"
    /\ Len(data_files) < MaxFiles
    /\ \E data \in Contents, stype \in ScatTypes, name \in Tags :
         LET a == <<data, stype, Qmax, Sigmaq, name>>
         IN  \E r \in read_data_string(data, stype, Qmax, Sigmaq, name) :
               IF r.err # ""
               THEN Finish("read_data_string", a, r) /\ UNCHANGED data_files
               ELSE /\ data_files' =
                         ListAppend(data_files, DataStringLabel(data, name))
                    /\ Describe("read_data_string", a, r,
                                DataStringLabel(data, name))
    /\ UNCHANGED <<data_server, stru_files, finished>>

ReadDataLists ==
    /\ pc = "idle"
    /\ Len(data_files) < MaxFiles
    /\ \E stype \in ScatTypes, Gr_data \in DataLists, name \in ListTags :
         LET a == <<stype, Qmax, Sigmaq, PyList(2), Gr_data, PyNone, name>>
         IN  \E r \in read_data_lists(stype, Qmax, Sigmaq, PyList(2), Gr_data,
                                      PyNone, name) :
               /\ Finish("read_data_lists", a, r)
               /\ data_files' = IF r.err = "" THEN ListAppend(data_files, name)
                                ELSE data_files
    /\ UNCHANGED <<data_server, stru_files, finished>>

\* addresses read between loads
LoadVars == {PyStr(Addr(Chars.x, <<"1">>)), PyStr(Chars.reset)}

NextLoad ==
    \/ ReadStruct
    \/ ReadStructString
    \/ ReadData
    \/ ReadDataString
    \/ ReadDataLists
    \/ Reset
    \/ Getvar(LoadVars)

SpecLoad == Init /\ [][NextLoad]_vars

LoadOps ==
    {"read_struct", "read_struct_string", "read_data", "read_data_string",
     "read_data_lists"}

\* list `after` is list `before` with one entry added at its end
Extended(before, after) ==
    /\ Len(after) = Len(before) + 1
    /\ SubSeq(after, 1, Len(before)) = before

\* C13: a step that is reset leaves both name lists empty, having told the
\* engine to reset; a step that is any other method leaves each list as it
\* was or with one entry added at its end.
C13_OnlyResetRemoves ==
    [][ /\ op' = "reset" =>
             /\ stru_files' = <<>>
             /\ data_files' = <<>>
             /\ calls' = <<Call("reset", <<>>, "reset", Ok(PyNone))>>
        /\ op' # "reset" =>
             /\ stru_files' = stru_files \/ Extended(stru_files, stru_files')
             /\ data_files' = data_files \/ Extended(data_files, data_files')
      ]_vars

\* a second dataset was loaded and is listed after the first
C13_Witness ==
    /\ op = "read_data_lists"
    /\ result.err = ""
    /\ data_files = <<PyStr(<<"f">>), PyStr(<<"l", "i", "s", "t">>)>>
    /\ stru_files # <<>>

C13_WitnessReset ==
    /\ op = "reset"
    /\ stru_files = <<>>
    /\ data_files = <<>>
    /\ calls[1].fn = "reset"

\* the name the caller gave the load made last
Supplied ==
    CASE op \in {"read_struct", "read_data"} -> args[1]
      [] op = "read_struct_string" -> args[2]
      [] op = "read_data_string" -> args[5]
      [] op = "read_data_lists" -> args[7]

Accepted == calls # <<>> /\ calls[Len(calls)].out.err = ""

\* C16: a step that is a load the engine accepts adds the name the caller
\* gave (the file name, or the tag of a load from text or lists) at the end
\* of the list of its kind, leaves the other list alone, and any descriptor
\* the observer is given is that name; a load the engine does not accept, or
\* is not asked, changes neither list.
C16_LoadAppendsSuppliedName ==
    [][ op' \in LoadOps =>
          IF Accepted'
          THEN /\ IF op' \in {"read_struct", "read_struct_string"}
                  THEN /\ stru_files' = Append(stru_files, Supplied')
                       /\ data_files' = data_files
                  ELSE /\ data_files' = Append(data_files, Supplied')
                       /\ stru_files' = stru_files
               /\ \A k \in 1..Len(notes') :
                     notes'[k] = SetDataDescriptor(Supplied')
          ELSE /\ stru_files' = stru_files
               /\ data_files' = data_files
               /\ notes' = <<>>
      ]_vars

\* read_data_string files the text of the data, and tells the observer so
C16_ContentFiled ==
    /\ op = "read_data_string"
    /\ args[5] = PyStr(<<"t">>)
    /\ data_files = <<args[1]>>
    /\ notes = <<SetDataDescriptor(args[1])>>

(***************************************************************************)
(* The status refine_step keeps, and the errors of setpar                  *)
(***************************************************************************)
\* C15: self.finished is always defined; it is not converged before the
\* first iteration, it is what the engine answered when refine_step has
\* returned, and it is converged when refine has returned.
C15_StatusFollowsLastIteration ==
    /\ finished # PyUndef
    /\ op = "__init__" => ~Truthy(finished)
    /\ Returned("refine_step") => finished = calls[Len(calls)].out.val
    /\ Returned("refine") => Truthy(finished)

\* refine has returned, its last iteration converged, and self.finished is
\* still the False an earlier refine_step stored
C15_StaleAfterRefine ==
    /\ Returned("refine")
    /\ Converged(calls[Len(calls)])
    /\ finished = PyBool(FALSE)

\* C17: when the engine raises from setpar's numeric set, setpar raises that
\* error and has made no other engine call.
C17_NumericSetErrorPropagates ==
    (op = "setpar" /\ calls # <<>> /\ calls[1].fn = "setpar_dbl"
        /\ calls[1].out.err # "")
        => /\ result.err = calls[1].out.err
           /\ Len(calls) = 1

\* the engine's ValueError from the numeric set is replaced by the
\* AttributeError of resolving the number as an address
C17_ValueErrorMasked ==
    /\ op = "setpar"
    /\ args = <<PyInt(1), PyInt(1)>>
    /\ calls = <<Call("setpar_dbl", <<PyInt(1), PyFloat(1)>>, "setpar",
                       Raise("ValueError"))>>
    /\ result.err = "AttributeError"

====
